---- MODULE Spec2Model ----
(***************************************************************************)
(* The content-addressable object store, the ref table and the commit      *)
(* graph operations of gitStructures.js (GitHash, GitBlob, GitTree,        *)
(* GitCommit, GitRepository).                                              *)
(*                                                                         *)
(* A JavaScript string is a sequence of UTF-16 code units, so a string is  *)
(* modelled as a sequence of character codes and a fingerprint as the      *)
(* 40-element sequence GitHash.generate returns.  null / undefined is the  *)
(* empty sequence, which is falsy like the empty string.                   *)
(***************************************************************************)
EXTENDS Integers, Sequences, FiniteSets, TLC

VARIABLES objects, refs, HEAD, now, call, ret, trail, committed, held, graphData

vars == <<objects, refs, HEAD, now, call, ret, trail, committed, held, graphData>>

\* null and undefined: `!x` holds of them as of the empty string
Null == <<>>

(***************************************************************************)
(* Bounds of the model                                                     *)
(***************************************************************************)
\* commits the store may hold before commit / storeObject(GitCommit) stop
MaxCommits == 4
\* commits a store built with storeObject(new GitCommit(...)) holds
MaxStored == 4
\* edges of a graph handed to the graph algorithms
MaxEdges == 2
\* entries of the store when blobs, trees and commits are put into it
MaxObjects == 3

(***************************************************************************)
(* String literals, as character codes                                     *)
(***************************************************************************)
\* {"type":"blob","content":
JsonBlobOpen ==
  <<123, 34, 116, 121, 112, 101, 34, 58, 34, 98, 108, 111, 98, 34, 44, 34, 99, 111, 110, 116, 101, 110, 116, 34, 58>>
\* {"type":"tree","entries":
JsonTreeOpen ==
  <<123, 34, 116, 121, 112, 101, 34, 58, 34, 116, 114, 101, 101, 34, 44, 34, 101, 110, 116, 114, 105, 101, 115, 34, 58>>
\* {"type":"commit","tree":
JsonCommitOpen ==
  <<123, 34, 116, 121, 112, 101, 34, 58, 34, 99, 111, 109, 109, 105, 116, 34, 44, 34, 116, 114, 101, 101, 34, 58>>
\* ,"parents":
JsonParentsKey ==
  <<44, 34, 112, 97, 114, 101, 110, 116, 115, 34, 58>>
\* ,"author":
JsonAuthorKey ==
  <<44, 34, 97, 117, 116, 104, 111, 114, 34, 58>>
\* ,"message":
JsonMessageKey ==
  <<44, 34, 109, 101, 115, 115, 97, 103, 101, 34, 58>>
\* ,"timestamp":
JsonTimestampKey ==
  <<44, 34, 116, 105, 109, 101, 115, 116, 97, 109, 112, 34, 58>>
\* {"mode":
JsonModeKey ==
  <<123, 34, 109, 111, 100, 101, 34, 58>>
\* ,"name":
JsonNameKey ==
  <<44, 34, 110, 97, 109, 101, 34, 58>>
\* ,"hash":
JsonHashKey ==
  <<44, 34, 104, 97, 115, 104, 34, 58>>
\* ,"type":
JsonTypeKey ==
  <<44, 34, 116, 121, 112, 101, 34, 58>>
\* blob
StrBlob ==
  <<98, 108, 111, 98>>
\* 100644
Mode644 ==
  <<49, 48, 48, 54, 52, 52>>
\* f
FileName ==
  <<102>>
\* a
Content ==
  <<97>>
\* b
Content2 ==
  <<98>>
\* A
Author ==
  <<65>>
\* m
Message ==
  <<109>>
\* 2026-11-05T10:00:00.000Z
Time0 ==
  <<50, 48, 50, 54, 45, 49, 49, 45, 48, 53, 84, 49, 48, 58, 48, 48, 58, 48, 48, 46, 48, 48, 48, 90>>
\* 2026-11-05T10:00:00.001Z
Time1 ==
  <<50, 48, 50, 54, 45, 49, 49, 45, 48, 53, 84, 49, 48, 58, 48, 48, 58, 48, 48, 46, 48, 48, 49, 90>>

\* branch names handed to createBranch, checkout and findMergeBase
BranchNames == {"main", "feature"}
\* what new Date().toISOString() may return
Times == <<Time0, Time1>>

(***************************************************************************)
(* GitHash.generate                                                        *)
(***************************************************************************)
\* A 32-bit integer is kept as <<high 16 bits, low 16 bits>> of its
\* two's-complement pattern.
\* hash = ((hash << 5) - hash) + char; hash = hash & hash
hashStep(hash, char) ==
  LET lo == hash[2] * 31 + char
      hi == hash[1] * 31 + (lo \div 65536)
  IN  <<hi % 65536, lo % 65536>>

RECURSIVE hashLoop(_, _, _, _)
\* for (let i = from; i < to; i++) hash = hashStep(hash, str.charCodeAt(i)),
\* the range split in halves to keep the evaluation shallow
hashLoop(str, from, to, hash) ==
  IF from >= to THEN hash
  ELSE IF to = from + 1 THEN hashStep(hash, str[from + 1])
  ELSE LET mid == (from + to) \div 2
           half == hashLoop(str, from, mid, hash)
       IN  IF half[1] >= 0 THEN hashLoop(str, mid, to, half) ELSE half

\* Math.abs of the signed value of the pattern; 2^31 stays <<32768, 0>>
abs32(hash) ==
  IF hash[1] < 32768 THEN hash
  ELSE IF hash[2] = 0 THEN <<65536 - hash[1], 0>>
  ELSE <<65535 - hash[1], 65536 - hash[2]>>

\* the character of one hexadecimal digit: 0-9, a-f
hexDigit(d) == IF d < 10 THEN 48 + d ELSE 87 + d

RECURSIVE hexOf(_)
\* digits of n in base 16, most significant first, none for 0
hexOf(n) == IF n = 0 THEN <<>> ELSE Append(hexOf(n \div 16), hexDigit(n % 16))

RECURSIVE padStart(_, _, _)
padStart(str, len, pad) ==
  IF Len(str) >= len THEN str ELSE padStart(<<pad>> \o str, len, pad)

\* Number.prototype.toString(16) of a non-negative value
toString16(v) ==
  IF v[1] = 0 THEN (IF v[2] = 0 THEN <<48>> ELSE hexOf(v[2]))
  ELSE hexOf(v[1]) \o padStart(hexOf(v[2]), 4, 48)

slice(str, from, to) == SubSeq(str, from + 1, IF to < Len(str) THEN to ELSE Len(str))

\* a list back to front
reversed(list) == [i \in 1..Len(list) |-> list[Len(list) + 1 - i]]

\* generate that pads at the end instead of the start
generatePaddedEnd(str) ==
  slice(reversed(padStart(reversed(toString16(abs32(hashLoop(str, 0, Len(str), <<0, 0>>)))),
                          40, 48)), 0, 40)

\* GitHash.generate, str being JSON.stringify(content)
generate(str) ==
  slice(padStart(toString16(abs32(hashLoop(str, 0, Len(str), <<0, 0>>))), 40, 48), 0, 40)

(***************************************************************************)
(* JSON.stringify of the values that are hashed                            *)
(***************************************************************************)
\* a string value: the strings of the model need no escaping
jsonString(s) == <<34>> \o s \o <<34>>

RECURSIVE jsonItems(_, _)
jsonItems(items, i) ==
  IF i > Len(items) THEN <<>>
  ELSE (IF i > 1 THEN <<44>> ELSE <<>>) \o items[i] \o jsonItems(items, i + 1)

\* an array whose elements are already serialized
jsonArray(items) == <<91>> \o jsonItems(items, 1) \o <<93>>

jsonStrings(strs) == jsonArray([i \in 1..Len(strs) |-> jsonString(strs[i])])

\* { mode, name, hash, type }
jsonEntry(e) ==
  JsonModeKey \o jsonString(e.mode) \o JsonNameKey \o jsonString(e.name)
    \o JsonHashKey \o jsonString(e.hash) \o JsonTypeKey \o jsonString(e.type)
    \o <<125>>

(***************************************************************************)
(* GitBlob, GitTree, GitCommit                                             *)
(***************************************************************************)
GitBlob(content) ==
  [type |-> "blob", content |-> content,
   hash |-> generate(JsonBlobOpen \o jsonString(content) \o <<125>>)]

hashOfEntries(entries) ==
  generate(JsonTreeOpen
             \o jsonArray([i \in 1..Len(entries) |-> jsonEntry(entries[i])])
             \o <<125>>)

GitTree(entries) ==
  [type |-> "tree", entries |-> entries, hash |-> hashOfEntries(entries)]

addEntry(tree, mode, name, hash, type) ==
  LET entries == Append(tree.entries,
                        [mode |-> mode, name |-> name, hash |-> hash, type |-> type])
  IN  [tree EXCEPT !.entries = entries, !.hash = hashOfEntries(entries)]

\* GitCommit with the parent list left out of the hashed value
GitCommitUnhashedParents(tree, parents, author, message, timestamp) ==
  [type |-> "commit", tree |-> tree, parents |-> parents, author |-> author,
   message |-> message, timestamp |-> timestamp,
   hash |-> generate(JsonCommitOpen \o jsonString(tree)
                       \o JsonAuthorKey \o jsonString(author)
                       \o JsonMessageKey \o jsonString(message)
                       \o JsonTimestampKey \o jsonString(timestamp)
                       \o <<125>>)]

GitCommit(tree, parents, author, message, timestamp) ==
  [type |-> "commit", tree |-> tree, parents |-> parents, author |-> author,
   message |-> message, timestamp |-> timestamp,
   hash |-> generate(JsonCommitOpen \o jsonString(tree)
                       \o JsonParentsKey \o jsonStrings(parents)
                       \o JsonAuthorKey \o jsonString(author)
                       \o JsonMessageKey \o jsonString(message)
                       \o JsonTimestampKey \o jsonString(timestamp)
                       \o <<125>>)]

(***************************************************************************)
(* GitRepository: the object store, the ref table and HEAD                 *)
(***************************************************************************)
\* new Map()
EmptyMap == [k \in {} |-> Null]

\* Map.prototype.get: undefined for a missing key
mapGet(map, key) == IF key \in DOMAIN map THEN map[key] ELSE Null

\* Map.prototype.set
mapSet(map, key, value) == (key :> value) @@ map

\* storeObject that never replaces an entry: a taken key gets the object
\* under a key of its own
storeObjectBeside(objs, obj) ==
  IF obj.hash \in DOMAIN objs
  THEN mapSet(objs, <<Cardinality(DOMAIN objs)>>, obj)
  ELSE mapSet(objs, obj.hash, obj)

\* this.objects.set(obj.hash, obj), as a function of the map
storeObject(objs, obj) == mapSet(objs, obj.hash, obj)

\* this.objects.get(hash)
getObject(hash) == mapGet(objects, hash)

\* commit && commit.type === 'commit', for commit = this.getObject(hash)
isCommit(hash) == hash \in DOMAIN objects /\ objects[hash].type = "commit"

Commits == {h \in DOMAIN objects : objects[h].type = "commit"}
Files == DOMAIN objects \ Commits

\* the fingerprint of new GitTree(), the tree the model's commits carry
EmptyTreeHash == GitTree(<<>>).hash
\* a well-formed fingerprint that no stored object has
StrayHash == generate(<<>>)

\* the caller's reference to a GitTree object: the tree as it is now and the
\* store keys whose entry is this very object; none before new GitTree()
NoTree == [tree |-> Null, keys |-> {}]
\* this.objects.set(key, another object): the entry is the held tree no more
released(handle, key) == [handle EXCEPT !.keys = @ \ {key}]

\* what the history variable records once the run is more than a series of commits
NoTrail == [pure |-> FALSE, commits |-> <<>>]

Init ==
  /\ objects = EmptyMap
  /\ refs = EmptyMap
  /\ HEAD = "main"
  /\ now = 1
  /\ call = [op |-> "new", args |-> <<>>]
  /\ ret = Null
  /\ trail = [pure |-> TRUE, commits |-> <<>>]
  /\ committed = FALSE
  /\ held = NoTree
  /\ graphData = Null

\* commit that moves main instead of the current reference
CommitOnMain(treeHash, message, author, timestamp) ==
  LET parentHash == mapGet(refs, HEAD)
      parents == IF parentHash # Null THEN <<parentHash>> ELSE <<>>
      commit == GitCommit(treeHash, parents, author, message, timestamp)
  IN
  /\ call' = [op |-> "commit", args |-> <<treeHash, message, author>>]
  /\ Cardinality(Commits) < MaxCommits
  /\ objects' = storeObject(objects, commit)
  /\ refs' = mapSet(refs, "main", commit.hash)
  /\ ret' = commit
  /\ trail' = IF trail.pure THEN [trail EXCEPT !.commits = Append(@, commit)]
              ELSE NoTrail
  /\ committed' = TRUE
  /\ held' = released(held, commit.hash)
  /\ UNCHANGED <<HEAD, now, graphData>>

\* commit that never records a parent
CommitWithoutParent(treeHash, message, author, timestamp) ==
  LET commit == GitCommit(treeHash, <<>>, author, message, timestamp) IN
  /\ call' = [op |-> "commit", args |-> <<treeHash, message, author>>]
  /\ Cardinality(Commits) < MaxCommits
  /\ ret' = commit
  /\ objects' = storeObject(objects, ret')
  /\ refs' = mapSet(refs, HEAD, ret'.hash)
  /\ trail' = IF trail.pure THEN [trail EXCEPT !.commits = Append(@, ret')]
              ELSE NoTrail
  /\ committed' = TRUE
  /\ held' = released(held, ret'.hash)
  /\ UNCHANGED <<HEAD, now, graphData>>

\* commit(treeHash, message, author), new Date().toISOString() being timestamp
Commit(treeHash, message, author, timestamp) ==
  LET parentHash == mapGet(refs, HEAD)
      parents == IF parentHash # Null THEN <<parentHash>> ELSE <<>>
      commit == GitCommit(treeHash, parents, author, message, timestamp)
  IN
  /\ call' = [op |-> "commit", args |-> <<treeHash, message, author>>]
  /\ Cardinality(Commits) < MaxCommits
  /\ ret' = commit
  /\ objects' = storeObject(objects, ret')
  /\ refs' = mapSet(refs, HEAD, ret'.hash)
  /\ trail' = IF trail.pure THEN [trail EXCEPT !.commits = Append(@, ret')]
              ELSE NoTrail
  /\ committed' = TRUE
  /\ held' = released(held, ret'.hash)
  /\ UNCHANGED <<HEAD, now, graphData>>

\* createBranch that ignores the fingerprint it is given
CreateBranchAtHead(branchName, commitHash) ==
  LET hash == mapGet(refs, HEAD) IN
  /\ call' = [op |-> "createBranch", args |-> <<branchName, commitHash>>]
  /\ refs' = IF hash # Null THEN mapSet(refs, branchName, hash) ELSE refs
  /\ ret' = Null
  /\ trail' = NoTrail
  /\ UNCHANGED <<objects, HEAD, now, committed, held, graphData>>

\* createBranch(branchName, commitHash = null)
CreateBranch(branchName, commitHash) ==
  LET hash == IF commitHash # Null THEN commitHash ELSE mapGet(refs, HEAD) IN
  /\ call' = [op |-> "createBranch", args |-> <<branchName, commitHash>>]
  /\ refs' = IF hash # Null THEN mapSet(refs, branchName, hash) ELSE refs
  /\ ret' = Null
  /\ trail' = NoTrail
  /\ UNCHANGED <<objects, HEAD, now, committed, held, graphData>>

\* checkout without the test that the branch exists
CheckoutAnyName(branchName) ==
  /\ call' = [op |-> "checkout", args |-> <<branchName>>]
  /\ HEAD' = branchName
  /\ ret' = TRUE
  /\ trail' = NoTrail
  /\ UNCHANGED <<objects, refs, now, committed, held, graphData>>

\* checkout(branchName)
Checkout(branchName) ==
  /\ call' = [op |-> "checkout", args |-> <<branchName>>]
  /\ HEAD' = IF branchName \in DOMAIN refs THEN branchName ELSE HEAD
  /\ ret' = (branchName \in DOMAIN refs)
  /\ trail' = NoTrail
  /\ UNCHANGED <<objects, refs, now, committed, held, graphData>>

(***************************************************************************)
(* Commit graph queries                                                    *)
(***************************************************************************)
RECURSIVE dfs(_, _), dfsParents(_, _, _)
\* dfs without the visited test
dfsRevisiting(commitHash, st) ==
  IF commitHash = Null THEN st
  ELSE LET seen == [st EXCEPT !.visited = @ \cup {commitHash}] IN
       IF isCommit(commitHash)
       THEN dfsParents(objects[commitHash].parents, 1,
                       [seen EXCEPT !.history = Append(@, objects[commitHash])])
       ELSE seen

\* the closure dfs of getCommitHistory; st is <<visited, history>> as a record
dfs(commitHash, st) ==
  IF commitHash = Null \/ commitHash \in st.visited THEN st
  ELSE LET seen == [st EXCEPT !.visited = @ \cup {commitHash}] IN
       IF isCommit(commitHash)
       THEN dfsParents(objects[commitHash].parents, 1,
                       [seen EXCEPT !.history = Append(@, objects[commitHash])])
       ELSE seen

\* commit.parents.forEach(parentHash => dfs(parentHash))
dfsParents(parents, i, st) ==
  IF i > Len(parents) THEN st
  ELSE dfsParents(parents, i + 1, dfs(parents[i], st))

getCommitHistory(startHash) ==
  LET hash == IF startHash # Null THEN startHash ELSE mapGet(refs, HEAD) IN
  IF hash = Null THEN <<>>
  ELSE dfs(hash, [visited |-> {}, history |-> <<>>]).history

RECURSIVE traverse(_, _), traverseParents(_, _, _)
\* the closure traverse of findMergeBase; the result is ancestors1
traverse(hash, ancestors1) ==
  IF hash = Null \/ hash \in ancestors1 THEN ancestors1
  ELSE IF isCommit(hash)
       THEN traverseParents(objects[hash].parents, 1, ancestors1 \cup {hash})
       ELSE ancestors1 \cup {hash}

\* commit.parents.forEach(traverse)
traverseParents(parents, i, ancestors1) ==
  IF i > Len(parents) THEN ancestors1
  ELSE traverseParents(parents, i + 1, traverse(parents[i], ancestors1))

RECURSIVE findCommon(_, _), findCommonParents(_, _, _)
\* findCommon that looks for a match among the ancestors before the commit itself
findCommonDeepest(hash, ancestors1) ==
  IF hash = Null THEN Null
  ELSE LET deeper == IF isCommit(hash)
                     THEN findCommonParents(objects[hash].parents, 1, ancestors1)
                     ELSE Null
       IN  IF deeper # Null THEN deeper
           ELSE IF hash \in ancestors1 THEN hash
           ELSE Null

\* the loop over the parents that follows the first parent only
findCommonFirstParent(parents, i, ancestors1) ==
  IF i > Len(parents) \/ i > 1 THEN Null
  ELSE findCommon(parents[i], ancestors1)

\* the closure findCommon of findMergeBase
findCommon(hash, ancestors1) ==
  IF hash = Null THEN Null
  ELSE IF hash \in ancestors1 THEN hash
  ELSE IF isCommit(hash)
       THEN findCommonParents(objects[hash].parents, 1, ancestors1)
       ELSE Null

\* for (const parent of commit.parents) { ... if (common) return common; }
findCommonParents(parents, i, ancestors1) ==
  IF i > Len(parents) THEN Null
  ELSE LET common == findCommon(parents[i], ancestors1) IN
       IF common # Null THEN common
       ELSE findCommonParents(parents, i + 1, ancestors1)

\* findMergeBase that takes the one commit there is when a branch has none
findMergeBaseOfOne(branch1, branch2) ==
  LET hash1 == mapGet(refs, branch1)
      hash2 == mapGet(refs, branch2)
  IN  IF hash1 = Null THEN hash2
      ELSE IF hash2 = Null THEN hash1
      ELSE findCommon(hash2, traverse(hash1, {}))

\* findMergeBase(branch1, branch2)
findMergeBase(branch1, branch2) ==
  LET hash1 == mapGet(refs, branch1)
      hash2 == mapGet(refs, branch2)
  IN  IF hash1 = Null \/ hash2 = Null THEN Null
      ELSE findCommon(hash2, traverse(hash1, {}))

\* getStats().totalCommits
totalCommits == Cardinality(Commits)

\* a call of getCommitHistory(startHash)
GetCommitHistory(startHash) ==
  /\ call' = [op |-> "getCommitHistory", args |-> <<startHash>>]
  /\ ret' = getCommitHistory(startHash)
  /\ UNCHANGED <<objects, refs, HEAD, now, trail, committed, held, graphData>>

\* a call of findMergeBase(branch1, branch2)
FindMergeBase(branch1, branch2) ==
  /\ call' = [op |-> "findMergeBase", args |-> <<branch1, branch2>>]
  /\ ret' = findMergeBase(branch1, branch2)
  /\ UNCHANGED <<objects, refs, HEAD, now, trail, committed, held, graphData>>

\* Set.prototype.has, a Set being the sequence of its members in insertion order
has(list, x) == \E i \in 1..Len(list) : list[i] = x

\* the orders in which this.refs.forEach can visit the ref table: a Map
\* iterates in insertion order, which the function refs does not keep, so
\* every order of its keys is taken
RefOrders ==
  {order \in [1..Cardinality(DOMAIN refs) -> DOMAIN refs] :
     \A i, j \in DOMAIN order : order[i] = order[j] => i = j}

RECURSIVE addAll(_, _, _)
\* history.forEach(commit => allCommits.add(commit.hash))
addAll(allCommits, history, i) ==
  IF i > Len(history) THEN allCommits
  ELSE addAll(IF has(allCommits, history[i].hash) THEN allCommits
              ELSE Append(allCommits, history[i].hash),
              history, i + 1)

RECURSIVE collect(_, _, _)
\* this.refs.forEach((hash, branch) => ...), the branches in the given order
collect(order, i, allCommits) ==
  IF i > Len(order) THEN allCommits
  ELSE collect(order, i + 1,
               addAll(allCommits, getCommitHistory(refs[order[i]]), 1))

\* the summary node pushed for a commit
nodeOf(commit) ==
  [id |-> commit.hash, hash |-> slice(commit.hash, 0, 7),
   message |-> commit.message, author |-> commit.author,
   timestamp |-> commit.timestamp, parents |-> commit.parents]

\* commit.parents.forEach(parentHash => edges.push({ from, to }))
edgesOf(commit) ==
  [j \in 1..Len(commit.parents) |-> [from |-> commit.hash, to |-> commit.parents[j]]]

\* build that pushes no edge for a parent after the first
buildFirstParentOnly(allCommits, i, graph) ==
  LET commit == getObject(allCommits[i]) IN
  IF commit # Null
  THEN [nodes |-> Append(graph.nodes, nodeOf(commit)),
        edges |-> graph.edges
                   \o SubSeq(edgesOf(commit), 1, IF commit.parents = <<>> THEN 0 ELSE 1)]
  ELSE graph

\* one round of allCommits.forEach(hash => ...)
build(allCommits, i, graph) ==
  LET commit == getObject(allCommits[i]) IN
  IF commit # Null
  THEN [nodes |-> Append(graph.nodes, nodeOf(commit)),
        edges |-> graph.edges \o edgesOf(commit)]
  ELSE graph

RECURSIVE buildAll(_, _, _)
\* allCommits.forEach(hash => ...)
buildAll(allCommits, i, graph) ==
  IF i > Len(allCommits) THEN graph
  ELSE buildAll(allCommits, i + 1, build(allCommits, i, graph))

\* getCommitGraph(), the ref table being visited in the given order
getCommitGraph(order) ==
  LET graph == buildAll(collect(order, 1, <<>>), 1, [nodes |-> <<>>, edges |-> <<>>])
  IN  [nodes |-> graph.nodes, edges |-> graph.edges, branches |-> refs, HEAD |-> HEAD]

\* getStats that counts the current reference as a branch
getStatsWithHead ==
  [totalObjects |-> Cardinality(DOMAIN objects),
   totalCommits |-> totalCommits,
   totalTrees |-> Cardinality({h \in DOMAIN objects : objects[h].type = "tree"}),
   totalBlobs |-> Cardinality({h \in DOMAIN objects : objects[h].type = "blob"}),
   branches |-> Cardinality(DOMAIN refs \cup {HEAD}),
   currentBranch |-> HEAD]

\* getStats()
getStats ==
  [totalObjects |-> Cardinality(DOMAIN objects),
   totalCommits |-> totalCommits,
   totalTrees |-> Cardinality({h \in DOMAIN objects : objects[h].type = "tree"}),
   totalBlobs |-> Cardinality({h \in DOMAIN objects : objects[h].type = "blob"}),
   branches |-> Cardinality(DOMAIN refs),
   currentBranch |-> HEAD]

\* a call of getCommitGraph()
GetCommitGraph ==
  /\ call' = [op |-> "getCommitGraph", args |-> <<>>]
  /\ \E order \in RefOrders : ret' = getCommitGraph(order)
  /\ UNCHANGED <<objects, refs, HEAD, now, trail, committed, held, graphData>>

\* a call of getStats()
GetStats ==
  /\ call' = [op |-> "getStats", args |-> <<>>]
  /\ ret' = getStats
  /\ UNCHANGED <<objects, refs, HEAD, now, trail, committed, held, graphData>>

\* a call of getObject(hash)
GetObject(hash) ==
  /\ call' = [op |-> "getObject", args |-> <<hash>>]
  /\ ret' = getObject(hash)
  /\ UNCHANGED <<objects, refs, HEAD, now, trail, committed, held, graphData>>

(***************************************************************************)
(* graphAlgorithms.js: topologicalSort, calculateLayout, findShortestPath, *)
(* detectCycle over a node list and an edge list.  A Map is a function     *)
(* with, where its iteration order is used, the sequence of its keys in    *)
(* insertion order beside it.                                              *)
(***************************************************************************)
RECURSIVE keysOf(_, _, _)
\* the keys nodes.forEach(node => map.set(node.id, ...)) inserts, in order
keysOf(nodes, i, keys) ==
  IF i > Len(nodes) THEN keys
  ELSE keysOf(nodes, i + 1,
              IF has(keys, nodes[i].id) THEN keys ELSE Append(keys, nodes[i].id))

\* nodes.forEach(node => map.set(node.id, value))
mapOfNodes(nodes, value) == [id \in {nodes[i].id : i \in 1..Len(nodes)} |-> value]

RECURSIVE topoEdges(_, _, _)
\* topologicalSort: edges.forEach, building the adjacency lists and in-degrees
topoEdges(edges, i, st) ==
  IF i > Len(edges) THEN st
  ELSE LET edge == edges[i] IN
       topoEdges(edges, i + 1,
                 IF edge.from \in DOMAIN st.graph /\ edge.to \in DOMAIN st.graph
                 THEN [graph |-> [st.graph EXCEPT ![edge.from] = Append(@, edge.to)],
                       inDegree |-> [st.inDegree EXCEPT ![edge.to] = @ + 1]]
                 ELSE st)

RECURSIVE topoQueue(_, _, _, _)
\* topoQueue that starts from the first node without incoming edge only
topoQueueFirst(keys, i, inDegree, queue) ==
  LET zero == {k \in i..Len(keys) : inDegree[keys[k]] = 0} IN
  IF zero = {} THEN queue
  ELSE Append(queue, keys[CHOOSE k \in zero : \A j \in zero : k <= j])

\* inDegree.forEach((degree, node) => { if (degree === 0) queue.push(node) })
topoQueue(keys, i, inDegree, queue) ==
  IF i > Len(keys) THEN queue
  ELSE topoQueue(keys, i + 1, inDegree,
                 IF inDegree[keys[i]] = 0 THEN Append(queue, keys[i]) ELSE queue)

RECURSIVE topoNeighbors(_, _, _)
\* neighbors.forEach: lower the in-degree and queue the neighbor at zero
topoNeighbors(neighbors, i, st) ==
  IF i > Len(neighbors) THEN st
  ELSE LET neighbor == neighbors[i]
           degree == st.inDegree[neighbor] - 1
       IN  topoNeighbors(neighbors, i + 1,
                         [inDegree |-> [st.inDegree EXCEPT ![neighbor] = degree],
                          queue |-> IF degree = 0 THEN Append(st.queue, neighbor)
                                    ELSE st.queue])

RECURSIVE topoLoop(_, _, _, _)
\* while (queue.length > 0)
topoLoop(graph, inDegree, queue, sorted) ==
  IF queue = <<>> THEN sorted
  ELSE LET node == Head(queue)
           st == topoNeighbors(graph[node], 1,
                               [inDegree |-> inDegree, queue |-> Tail(queue)])
       IN  topoLoop(graph, st.inDegree, st.queue, Append(sorted, node))

\* Array.prototype.reverse
reverse(list) == [i \in 1..Len(list) |-> list[Len(list) + 1 - i]]

\* topologicalSort(nodes, edges)
topologicalSort(nodes, edges) ==
  LET st == topoEdges(edges, 1, [graph |-> mapOfNodes(nodes, <<>>),
                                 inDegree |-> mapOfNodes(nodes, 0)])
      queue == topoQueue(keysOf(nodes, 1, <<>>), 1, st.inDegree, <<>>)
  IN  reverse(topoLoop(st.graph, st.inDegree, queue, <<>>))

RECURSIVE cycleEdges(_, _, _)
\* detectCycle: edges.forEach, building the adjacency lists
cycleEdges(edges, i, graph) ==
  IF i > Len(edges) THEN graph
  ELSE cycleEdges(edges, i + 1,
                  IF edges[i].from \in DOMAIN graph
                  THEN [graph EXCEPT ![edges[i].from] = Append(@, edges[i].to)]
                  ELSE graph)

RECURSIVE cycleDfs(_, _, _), cycleNeighbors(_, _, _, _)
\* detectCycle's dfs that takes every visited neighbor for a cycle
cycleNeighborsVisited(graph, neighbors, i, st) ==
  IF i > Len(neighbors) THEN st
  ELSE IF neighbors[i] \in st.visiting \cup st.visited THEN [st EXCEPT !.found = TRUE]
  ELSE LET sub == cycleDfs(graph, neighbors[i], st) IN
       IF sub.found THEN sub ELSE cycleNeighbors(graph, neighbors, i + 1, sub)

\* for (const neighbor of neighbors) in detectCycle's dfs
cycleNeighbors(graph, neighbors, i, st) ==
  IF i > Len(neighbors) THEN st
  ELSE IF neighbors[i] \in st.visiting THEN [st EXCEPT !.found = TRUE]
  ELSE IF neighbors[i] \notin st.visited
       THEN LET sub == cycleDfs(graph, neighbors[i], st) IN
            IF sub.found THEN sub ELSE cycleNeighbors(graph, neighbors, i + 1, sub)
       ELSE cycleNeighbors(graph, neighbors, i + 1, st)

\* detectCycle's dfs(nodeId): found is its return value
cycleDfs(graph, nodeId, st) ==
  LET sub == cycleNeighbors(graph, mapGet(graph, nodeId), 1,
                            [st EXCEPT !.visiting = @ \cup {nodeId}])
  IN  IF sub.found THEN sub
      ELSE [sub EXCEPT !.visiting = @ \ {nodeId}, !.visited = @ \cup {nodeId}]

RECURSIVE cycleNodes(_, _, _, _)
\* detectCycle that starts its search at the first node only
cycleNodesFirstOnly(graph, nodes, i, st) ==
  IF i > Len(nodes) \/ i > 1 THEN st
  ELSE cycleDfs(graph, nodes[i].id, st)

\* for (const node of nodes) in detectCycle
cycleNodes(graph, nodes, i, st) ==
  IF i > Len(nodes) THEN st
  ELSE IF nodes[i].id \notin st.visited
       THEN LET sub == cycleDfs(graph, nodes[i].id, st) IN
            IF sub.found THEN sub ELSE cycleNodes(graph, nodes, i + 1, sub)
       ELSE cycleNodes(graph, nodes, i + 1, st)

\* detectCycle(nodes, edges)
detectCycle(nodes, edges) ==
  cycleNodes(cycleEdges(edges, 1, mapOfNodes(nodes, <<>>)), nodes, 1,
             [visiting |-> {}, visited |-> {}, found |-> FALSE]).found

RECURSIVE pathEdges(_, _, _)
\* pathEdges that records an edge in its own direction only
pathEdgesDirected(edges, i, graph) ==
  IF i > Len(edges) THEN graph
  ELSE LET edge == edges[i]
           g1 == IF edge.from \in DOMAIN graph THEN graph ELSE mapSet(graph, edge.from, <<>>)
           g2 == IF edge.to \in DOMAIN g1 THEN g1 ELSE mapSet(g1, edge.to, <<>>)
       IN  pathEdges(edges, i + 1, [g2 EXCEPT ![edge.from] = Append(@, edge.to)])

\* findShortestPath: edges.forEach, each edge in both directions
pathEdges(edges, i, graph) ==
  IF i > Len(edges) THEN graph
  ELSE LET edge == edges[i]
           g1 == IF edge.from \in DOMAIN graph THEN graph ELSE mapSet(graph, edge.from, <<>>)
           g2 == IF edge.to \in DOMAIN g1 THEN g1 ELSE mapSet(g1, edge.to, <<>>)
           g3 == [g2 EXCEPT ![edge.from] = Append(@, edge.to)]
       IN  pathEdges(edges, i + 1, [g3 EXCEPT ![edge.to] = Append(@, edge.from)])

RECURSIVE pathNeighbors(_, _, _, _)
\* for (const neighbor of neighbors) in findShortestPath
pathNeighbors(neighbors, i, path, st) ==
  IF i > Len(neighbors) THEN st
  ELSE pathNeighbors(neighbors, i + 1, path,
                     IF neighbors[i] \notin st.visited
                     THEN [visited |-> st.visited \cup {neighbors[i]},
                           queue |-> Append(st.queue, Append(path, neighbors[i]))]
                     ELSE st)

RECURSIVE pathLoop(_, _, _)
\* while (queue.length > 0) in findShortestPath
pathLoop(graph, endId, st) ==
  IF st.queue = <<>> THEN Null
  ELSE LET path == Head(st.queue)
           node == path[Len(path)]
       IN  IF node = endId THEN path
           ELSE pathLoop(graph, endId,
                         pathNeighbors(mapGet(graph, node), 1, path,
                                       [st EXCEPT !.queue = Tail(@)]))

\* findShortestPath(startId, endId, edges)
findShortestPath(startId, endId, edges) ==
  IF startId = endId THEN <<startId>>
  ELSE pathLoop(pathEdges(edges, 1, EmptyMap), endId,
                [visited |-> {startId}, queue |-> <<<<startId>>>>])

\* the options CommitGraph passes, which are calculateLayout's defaults too
DefaultOptions ==
  [nodeWidth |-> 120, nodeHeight |-> 60, horizontalGap |-> 150, verticalGap |-> 100]

\* the layer counted from the start of the sorted list
layerOfFromStart(sorted, k) == k - 1

\* the layer calculateLayout gives the k-th id of the sorted list (k from 1)
layerOf(sorted, k) == Len(sorted) - (k - 1) - 1

\* layerCounts.get(layer) for the layer of the k-th sorted id
layerSize(sorted, k) ==
  Cardinality({j \in 1..Len(sorted) : layerOf(sorted, j) = layerOf(sorted, k)})

\* layerPositions.get(layer) when the k-th sorted id is reached
positionOf(sorted, k) ==
  Cardinality({j \in 1..(k - 1) : layerOf(sorted, j) = layerOf(sorted, k)})

\* node.x and node.y are set: a coordinate is kept as the integer 2 * value,
\* every coordinate being a multiple of 1/2 for integer options
withXY(node, x, y) == ("x" :> x) @@ ("y" :> y) @@ node

\* placeNode that starts each layer at x = 0 instead of centring it
placeNodeFromLeft(node, sorted, k, options) ==
  withXY(node,
         2 * positionOf(sorted, k) * (options.nodeWidth + options.horizontalGap)
           + options.nodeWidth,
         2 * layerOf(sorted, k) * options.verticalGap + options.nodeHeight)

\* steps 3 and 4 of calculateLayout for the k-th sorted id
placeNode(node, sorted, k, options) ==
  LET layer == layerOf(sorted, k)
      size == layerSize(sorted, k)
      position == positionOf(sorted, k)
      totalWidth == size * options.nodeWidth + (size - 1) * options.horizontalGap
      startX2 == 0 - totalWidth
  IN  withXY(node,
             startX2 + 2 * position * (options.nodeWidth + options.horizontalGap)
               + options.nodeWidth,
             2 * layer * options.verticalGap + options.nodeHeight)

\* steps 2 to 4 of calculateLayout: nodeMap holds, for each id, the last
\* node of the list with that id, and that node is given x and y when the
\* sorted list holds its id
placeAll(nodes, sorted, options) ==
  [i \in 1..Len(nodes) |->
     IF /\ \A j \in (i + 1)..Len(nodes) : nodes[j].id # nodes[i].id
        /\ has(sorted, nodes[i].id)
     THEN placeNode(nodes[i], sorted,
                    CHOOSE k \in 1..Len(sorted) : sorted[k] = nodes[i].id, options)
     ELSE nodes[i]]

\* steps 1 to 4 of calculateLayout: the nodes handed in, as they are left
laidOut(nodes, edges, options) ==
  placeAll(nodes, topologicalSort(nodes, edges), options)

\* nodeMap.get(id) after the layout, the id being one of the nodes'
nodeMapGet(placed, id) ==
  placed[CHOOSE i \in 1..Len(placed) :
           placed[i].id = id /\ \A j \in (i + 1)..Len(placed) : placed[j].id # id]

\* step 5 of calculateLayout for one edge; a field that would hold undefined
\* or NaN is left out
edgeWithPath(edge, placed, options) ==
  LET ids == {placed[i].id : i \in 1..Len(placed)} IN
  IF edge.from \in ids /\ edge.to \in ids
  THEN LET fromNode == nodeMapGet(placed, edge.from)
           toNode == nodeMapGet(placed, edge.to)
       IN  IF "x" \in DOMAIN fromNode /\ "x" \in DOMAIN toNode
           THEN [from |-> edge.from, to |-> edge.to,
                 x1 |-> fromNode.x, y1 |-> fromNode.y + options.nodeHeight,
                 x2 |-> toNode.x, y2 |-> toNode.y - options.nodeHeight,
                 controlX1 |-> fromNode.x,
                 controlY1 |-> fromNode.y + (toNode.y - fromNode.y) \div 2,
                 controlX2 |-> toNode.x,
                 controlY2 |-> fromNode.y + (toNode.y - fromNode.y) \div 2]
           ELSE IF "x" \in DOMAIN fromNode
           THEN [from |-> edge.from, to |-> edge.to,
                 x1 |-> fromNode.x, y1 |-> fromNode.y + options.nodeHeight,
                 controlX1 |-> fromNode.x]
           ELSE IF "x" \in DOMAIN toNode
           THEN [from |-> edge.from, to |-> edge.to,
                 x2 |-> toNode.x, y2 |-> toNode.y - options.nodeHeight,
                 controlX2 |-> toNode.x]
           ELSE edge
  ELSE edge

\* step 5 of calculateLayout and its return value, the nodes being placed
layoutOf(placed, edges, options) ==
  LET keys == keysOf(placed, 1, <<>>) IN
  [nodes |-> [k \in 1..Len(keys) |-> nodeMapGet(placed, keys[k])],
   edges |-> [i \in 1..Len(edges) |-> edgeWithPath(edges[i], placed, options)]]

\* calculateLayout(nodes, edges, options), its return value
calculateLayout(nodes, edges, options) ==
  IF Len(nodes) = 0 THEN [nodes |-> <<>>, edges |-> <<>>]
  ELSE layoutOf(laidOut(nodes, edges, options), edges, options)

(***************************************************************************)
(* CommitGraph: the layout effect and renderEdge                           *)
(***************************************************************************)
\* !edge[field]: the field is undefined, NaN (both left out) or 0
falsy(edge, field) == field \notin DOMAIN edge \/ edge[field] = 0

\* the path renderEdge gives to the <path> element: M x1,y1 C ... x2,y2
pathOf(edge) ==
  [d |-> <<edge.x1, edge.y1, edge.controlX1, edge.controlY1,
           edge.controlX2, edge.controlY2, edge.x2, edge.y2>>]

\* renderEdge(edge, index): null or the path element
renderEdge(edge) ==
  IF falsy(edge, "x1") \/ falsy(edge, "y1") \/ falsy(edge, "x2") \/ falsy(edge, "y2")
  THEN Null
  ELSE pathOf(edge)

\* the layout CommitGraph's effect computes of the snapshot it is given
layoutData(graph) == calculateLayout(graph.nodes, graph.edges, DefaultOptions)

(***************************************************************************)
(* calculateGraphMetrics                                                   *)
(***************************************************************************)
\* map.get(key) || 0
degreeOf(map, key) == IF key \in DOMAIN map THEN map[key] ELSE 0

RECURSIVE metricsDegrees(_, _, _)
\* edges.forEach(edge => { outDegree.set(edge.from, ...); inDegree.set(edge.to, ...) })
metricsDegrees(edges, i, st) ==
  IF i > Len(edges) THEN st
  ELSE metricsDegrees(edges, i + 1,
         [outDegree |-> mapSet(st.outDegree, edges[i].from,
                               degreeOf(st.outDegree, edges[i].from) + 1),
          inDegree |-> mapSet(st.inDegree, edges[i].to,
                              degreeOf(st.inDegree, edges[i].to) + 1)])

\* nodes.filter(node => degree.get(node.id) === 0)
zeroDegree(nodes, degree) == SelectSeq(nodes, LAMBDA node : degree[node.id] = 0)

\* the depth the call stack cannot hold: dfs has no visited set, and a path
\* of more steps than there are edges goes round a cycle for ever
Overflow == -1

RECURSIVE metricsDfs(_, _, _, _, _), metricsNeighbors(_, _, _, _, _, _)
\* function dfs(nodeId, depth) of calculateGraphMetrics; the result is
\* maxDepth after the call, or Overflow; limit is the number of edges
metricsDfs(graph, nodeId, depth, limit, maxDepth) ==
  IF maxDepth = Overflow \/ depth > limit THEN Overflow
  ELSE metricsNeighbors(graph, IF nodeId \in DOMAIN graph THEN graph[nodeId] ELSE <<>>,
                        1, depth, limit, IF depth > maxDepth THEN depth ELSE maxDepth)

\* neighbors.forEach(neighbor => dfs(neighbor, depth + 1))
metricsNeighbors(graph, neighbors, i, depth, limit, maxDepth) ==
  IF i > Len(neighbors) \/ maxDepth = Overflow THEN maxDepth
  ELSE metricsNeighbors(graph, neighbors, i + 1, depth, limit,
                        metricsDfs(graph, neighbors[i], depth + 1, limit, maxDepth))

RECURSIVE metricsRoots(_, _, _, _, _)
\* the dfs from every root but the first
metricsRootsButFirst(graph, roots, i, limit, maxDepth) ==
  IF i > Len(roots) \/ maxDepth = Overflow THEN maxDepth
  ELSE metricsRoots(graph, roots, i + 1, limit,
                    IF i = 1 THEN maxDepth
                    ELSE metricsDfs(graph, roots[i].id, 0, limit, maxDepth))

\* roots.forEach(root => dfs(root.id, 0))
metricsRoots(graph, roots, i, limit, maxDepth) ==
  IF i > Len(roots) \/ maxDepth = Overflow THEN maxDepth
  ELSE metricsRoots(graph, roots, i + 1, limit,
                    metricsDfs(graph, roots[i].id, 0, limit, maxDepth))

\* the record calculateGraphMetrics returns; an average is kept as the pair
\* of the two numbers that are divided
metricsOf(nodes, edges, degrees, roots, maxDepth) ==
  IF maxDepth = Overflow THEN [error |-> "RangeError"]
  ELSE [nodeCount |-> Len(nodes),
        edgeCount |-> Len(edges),
        rootCount |-> Len(roots),
        leafCount |-> Len(zeroDegree(nodes, degrees.outDegree)),
        maxDepth |-> maxDepth,
        avgInDegree |-> IF Len(nodes) > 0 THEN <<Len(edges), Len(nodes)>> ELSE <<0, 1>>,
        avgOutDegree |-> IF Len(nodes) > 0 THEN <<Len(edges), Len(nodes)>> ELSE <<0, 1>>]

\* the part of calculateGraphMetrics after the degrees are counted
metricsFrom(nodes, edges, graph, degrees, roots) ==
  metricsOf(nodes, edges, degrees, roots, metricsRoots(graph, roots, 1, Len(edges), 0))

\* the part of calculateGraphMetrics after the adjacency lists are built
metricsWith(nodes, edges, graph, degrees) ==
  metricsFrom(nodes, edges, graph, degrees, zeroDegree(nodes, degrees.inDegree))

\* calculateGraphMetrics(nodes, edges)
calculateGraphMetrics(nodes, edges) ==
  metricsWith(nodes, edges, cycleEdges(edges, 1, mapOfNodes(nodes, <<>>)),
              metricsDegrees(edges, 1, [inDegree |-> mapOfNodes(nodes, 0),
                                        outDegree |-> mapOfNodes(nodes, 0)]))

\* a call of calculateGraphMetrics(graphData.nodes, graphData.edges)
CalculateGraphMetrics ==
  /\ call' = [op |-> "calculateGraphMetrics", args |-> <<>>]
  /\ ret' = calculateGraphMetrics(graphData.nodes, graphData.edges)
  /\ UNCHANGED <<objects, refs, HEAD, now, trail, committed, held, graphData>>

\* a call of topologicalSort(graphData.nodes, graphData.edges)
TopologicalSort ==
  /\ call' = [op |-> "topologicalSort", args |-> <<>>]
  /\ ret' = topologicalSort(graphData.nodes, graphData.edges)
  /\ UNCHANGED <<objects, refs, HEAD, now, trail, committed, held, graphData>>

\* a call of detectCycle(graphData.nodes, graphData.edges)
DetectCycle ==
  /\ call' = [op |-> "detectCycle", args |-> <<>>]
  /\ ret' = detectCycle(graphData.nodes, graphData.edges)
  /\ UNCHANGED <<objects, refs, HEAD, now, trail, committed, held, graphData>>

\* a call of findShortestPath(startId, endId, graphData.edges)
FindShortestPath(startId, endId) ==
  /\ call' = [op |-> "findShortestPath", args |-> <<startId, endId>>]
  /\ ret' = findShortestPath(startId, endId, graphData.edges)
  /\ UNCHANGED <<objects, refs, HEAD, now, trail, committed, held, graphData>>

\* a call of calculateLayout([...graphData.nodes], [...graphData.edges],
\* options): the arrays are copies, the node objects in them are graphData's
CalculateLayout(options) ==
  /\ call' = [op |-> "calculateLayout", args |-> <<options>>]
  /\ ret' = calculateLayout(graphData.nodes, graphData.edges, options)
  /\ graphData' = [graphData EXCEPT
                     !.nodes = laidOut(graphData.nodes, graphData.edges, options)]
  /\ UNCHANGED <<objects, refs, HEAD, now, trail, committed, held>>

\* the store after the held tree object was changed: every entry that is
\* this object shows the change
aliased(objs, keys, tree) ==
  [key \in DOMAIN objs |-> IF key \in keys THEN tree ELSE objs[key]]

\* a call of storeObject(object), the object being newly constructed and not
\* kept by the caller; the call is noted with whether the key was there
StoreObject(object) ==
  /\ call' = [op |-> "storeObject", args |-> <<object>>,
              had |-> object.hash \in DOMAIN objects]
  /\ objects' = storeObject(objects, object)
  /\ ret' = object.hash
  /\ held' = released(held, object.hash)
  /\ trail' = NoTrail
  /\ UNCHANGED <<refs, HEAD, now, committed, graphData>>

\* a call of storeObject(tree), tree being the object the caller holds
StoreHeld ==
  /\ held.tree # Null
  /\ call' = [op |-> "storeObject", args |-> <<held.tree>>,
              had |-> held.tree.hash \in DOMAIN objects]
  /\ objects' = storeObject(objects, held.tree)
  /\ ret' = held.tree.hash
  /\ held' = [held EXCEPT !.keys = @ \cup {held.tree.hash}]
  /\ trail' = NoTrail
  /\ UNCHANGED <<refs, HEAD, now, committed, graphData>>

\* tree = new GitTree(): the caller holds a new tree and lets go of the old
NewTree ==
  /\ call' = [op |-> "GitTree", args |-> <<>>]
  /\ held' = [tree |-> GitTree(<<>>), keys |-> {}]
  /\ ret' = Null
  /\ trail' = NoTrail
  /\ UNCHANGED <<objects, refs, HEAD, now, committed, graphData>>

\* a call of tree.addEntry(mode, name, hash, type) on the held tree, which
\* is the object of every store entry made from it
AddEntry(mode, name, hash, type) ==
  /\ call' = [op |-> "addEntry", args |-> <<mode, name, hash, type>>]
  /\ held.tree # Null
  /\ held' = [held EXCEPT !.tree = addEntry(held.tree, mode, name, hash, type)]
  /\ objects' = aliased(objects, held.keys, held'.tree)
  /\ ret' = Null
  /\ trail' = NoTrail
  /\ UNCHANGED <<refs, HEAD, now, committed, graphData>>

\* the clock moves on between two calls
Tick ==
  /\ now < Len(Times)
  /\ now' = now + 1
  /\ UNCHANGED <<objects, refs, HEAD, call, ret, trail, committed, held, graphData>>

(***************************************************************************)
(* Specifications                                                          *)
(***************************************************************************)
\* the fingerprints a caller can hand to createBranch or getCommitHistory
Fingerprints == DOMAIN objects \cup {StrayHash}

\* the repository driven through its API, as useGitRepository drives it
Next ==
  \/ Commit(EmptyTreeHash, Message, Author, Times[now])
  \/ \E branchName \in BranchNames, commitHash \in Fingerprints \cup {Null} :
       CreateBranch(branchName, commitHash)
  \/ \E branchName \in BranchNames : Checkout(branchName)
  \/ Tick

Spec == Init /\ [][Next]_vars

(***************************************************************************)
(* Stores with commits of any shape.  A caller builds them with            *)
(* storeObject(new GitCommit(tree, parents, author, message, timestamp));  *)
(* the i-th commit stored takes its parents among the two stored before it *)
(***************************************************************************)
\* the parent lists, as positions, the i-th stored commit may have
ParentMenu(i) ==
  {<<>>} \cup (IF i > 1 THEN {<<i - 1>>} ELSE {})
         \cup (IF i > 2 THEN {<<i - 2>>, <<i - 2, i - 1>>, <<i - 1, i - 2>>} ELSE {})

Shapes(n) == {sh \in [1..n -> UNION {ParentMenu(i) : i \in 1..n}] :
                \A i \in 1..n : sh[i] \in ParentMenu(i)}

RECURSIVE commitsOf(_, _)
\* the first n commits of a shape, each constructed from those before it
commitsOf(sh, n) ==
  IF n = 0 THEN <<>>
  ELSE LET before == commitsOf(sh, n - 1)
           parents == [k \in 1..Len(sh[n]) |-> before[sh[n][k]].hash]
       IN  Append(before,
                  GitCommit(EmptyTreeHash, parents, Author, Message,
                            Times[(n % Len(Times)) + 1]))

RECURSIVE storeAll(_, _, _)
\* objs.forEach(obj => repo.storeObject(obj))
storeAll(objs, list, i) ==
  IF i > Len(list) THEN objs
  ELSE storeAll(storeObject(objs, list[i]), list, i + 1)

DagStores ==
  {storeAll(storeObject(EmptyMap, GitBlob(Content)), commitsOf(sh, Len(sh)), 1) :
     sh \in UNION {Shapes(n) : n \in 0..MaxStored}}

\* ref tables createBranch(name, fingerprint) can leave over a store
RefTables(objs) ==
  UNION {[names -> DOMAIN objs] : names \in SUBSET BranchNames}

\* the contents of the blobs that are stored
Contents == {Content, Content2}
\* the tree a commit is made of: the held one, or an empty one
treeAtHand == IF held.tree # Null THEN held.tree.hash ELSE EmptyTreeHash

\* the held tree has an entry of this name
named(name) == \E i \in 1..Len(held.tree.entries) : held.tree.entries[i].name = name

\* the store filled through storeObject and commit, a tree being given an
\* entry for a file before or after it is stored, and the statistics
NextStore ==
  \/ \E content \in Contents :
       /\ GitBlob(content).hash \in DOMAIN objects \/ Cardinality(DOMAIN objects) < MaxObjects
       /\ StoreObject(GitBlob(content))
  \/ NewTree
  \/ /\ held.tree # Null
     /\ ~named(FileName)
     /\ AddEntry(Mode644, FileName, GitBlob(Content).hash, StrBlob)
  \/ /\ held.tree # Null
     /\ held.tree.hash \in DOMAIN objects \/ Cardinality(DOMAIN objects) < MaxObjects
     /\ StoreHeld
  \/ /\ Cardinality(DOMAIN objects) < MaxObjects
     /\ Commit(treeAtHand, Message, Author, Times[now])
  \/ \E branchName \in BranchNames : CreateBranch(branchName, Null)
  \/ \E branchName \in BranchNames : Checkout(branchName)
  \/ GetStats

SpecStore == Init /\ [][NextStore]_vars

\* blobs and commits put into the store, branches made and checked out,
\* and every query
NextQuery ==
  \/ \E content \in Contents :
       /\ GitBlob(content).hash \in DOMAIN objects \/ Cardinality(DOMAIN objects) < MaxObjects
       /\ StoreObject(GitBlob(content))
  \/ /\ Cardinality(DOMAIN objects) < MaxObjects
     /\ Commit(EmptyTreeHash, Message, Author, Times[now])
  \/ \E branchName \in BranchNames : CreateBranch(branchName, Null)
  \/ \E branchName \in BranchNames : Checkout(branchName)
  \/ \E hash \in Fingerprints : GetObject(hash)
  \/ \E startHash \in Fingerprints \cup {Null} : GetCommitHistory(startHash)
  \/ \E branch1 \in BranchNames, branch2 \in BranchNames : FindMergeBase(branch1, branch2)
  \/ GetCommitGraph
  \/ GetStats

SpecQuery == Init /\ [][NextQuery]_vars

\* the ids of the nodes a graph handed to the algorithms is made of
NodeIds == {"A", "B", "C"}
\* node lists without a repeated id, in every order
NodeLists ==
  {ids \in UNION {[1..n -> NodeIds] : n \in 0..Cardinality(NodeIds)} :
     \A i, j \in DOMAIN ids : ids[i] = ids[j] => i = j}
\* edge lists between those ids, listed or not, repeated edges and loops included
EdgeLists == UNION {[1..n -> [from : NodeIds, to : NodeIds]] : n \in 0..MaxEdges}
\* the overrides of calculateLayout's options that are tried beside the defaults
LayoutOptions ==
  {DefaultOptions,
   [nodeWidth |-> 81, nodeHeight |-> 40, horizontalGap |-> 20, verticalGap |-> 1]}

\* a graph handed to the algorithms, the repository being left out of it
InitGraph ==
  /\ objects = EmptyMap
  /\ refs = EmptyMap
  /\ HEAD = "main"
  /\ now = 1
  /\ call = [op |-> "new", args |-> <<>>]
  /\ ret = Null
  /\ trail = NoTrail
  /\ committed = FALSE
  /\ held = NoTree
  /\ graphData \in {[nodes |-> [i \in DOMAIN ids |-> [id |-> ids[i]]], edges |-> edges] :
                      ids \in NodeLists, edges \in EdgeLists}

\* the algorithms that only read the graph
NextGraph ==
  \/ TopologicalSort
  \/ DetectCycle
  \/ \E startId \in NodeIds, endId \in NodeIds : FindShortestPath(startId, endId)
  \/ CalculateGraphMetrics

SpecGraph == InitGraph /\ [][NextGraph]_vars

\* the layout, which writes x and y into the nodes, and the sort it rests on
NextLayout ==
  \/ TopologicalSort
  \/ \E options \in LayoutOptions : CalculateLayout(options)

SpecLayout == InitGraph /\ [][NextLayout]_vars

InitDag ==
  /\ objects \in DagStores
  /\ refs \in RefTables(objects)
  /\ HEAD = "main"
  /\ now = 1
  /\ call = [op |-> "new", args |-> <<>>]
  /\ ret = Null
  /\ trail = NoTrail
  /\ committed = FALSE
  /\ held = NoTree
  /\ graphData = Null

NextDag ==
  \/ \E startHash \in Fingerprints \cup {Null} : GetCommitHistory(startHash)
  \/ GetCommitGraph
  \/ \E branch1 \in BranchNames, branch2 \in BranchNames :
       FindMergeBase(branch1, branch2)

SpecDag == InitDag /\ [][NextDag]_vars
(***************************************************************************)
(* Properties                                                              *)
(***************************************************************************)
\* the step is the call recorded in call', not a tick of the clock
CallStep(op) == call'.op = op /\ now' = now

\* C1: every value in the ref table is the fingerprint of a stored object
\* whose kind is commit
C1_RefsResolveToCommits == \A b \in DOMAIN refs : isCommit(refs[b])

\* C2: a commit call leaves HEAD and every ref-table entry other than the
\* current reference's unchanged, and the current reference's entry becomes
\* the new commit's fingerprint
C2_CommitFrame ==
  [][CallStep("commit") =>
       /\ HEAD' = HEAD
       /\ \A b \in BranchNames \ {HEAD} : mapGet(refs', b) = mapGet(refs, b)
       /\ DOMAIN refs' = DOMAIN refs \cup {HEAD}
       /\ refs'[HEAD] = ret'.hash]_vars

\* a commit was just made on feature while main has its own entry
C2_Witness ==
  /\ call.op = "commit"
  /\ HEAD = "feature"
  /\ "main" \in DOMAIN refs
  /\ isCommit(refs["main"])
  /\ refs["main"] # refs["feature"]

\* C3: commit returns a commit whose parent list is [refs[HEAD]] when HEAD
\* had an entry and [] otherwise, built from the arguments; afterwards it is
\* in the store under its fingerprint and refs[HEAD] is that fingerprint
C3_CommitResult ==
  [][CallStep("commit") =>
       /\ ret'.type = "commit"
       /\ ret'.parents = (IF HEAD \in DOMAIN refs THEN <<refs[HEAD]>> ELSE <<>>)
       /\ Len(ret'.parents) <= 1
       /\ <<ret'.tree, ret'.message, ret'.author>> = call'.args
       /\ ret'.hash \in DOMAIN objects'
       /\ objects'[ret'.hash] = ret'
       /\ refs'[HEAD'] = ret'.hash]_vars

\* a commit with one parent was returned and HEAD's entry points at it
C3_Witness ==
  /\ call.op = "commit"
  /\ Len(ret.parents) = 1
  /\ isCommit(ret.parents[1])
  /\ refs[HEAD] = ret.hash

\* C4: checkout(name) returns true and sets HEAD to name exactly when name
\* has a ref-table entry, otherwise returns false and leaves HEAD; the ref
\* table and the store are unchanged either way
C4_Checkout ==
  [][CallStep("checkout") =>
       LET name == call'.args[1] IN
       /\ ret' = (name \in DOMAIN refs)
       /\ HEAD' = (IF name \in DOMAIN refs THEN name ELSE HEAD)
       /\ refs' = refs
       /\ objects' = objects]_vars

\* a checkout of a name without entry failed in a repository that has branches
C4_Witness ==
  /\ call.op = "checkout"
  /\ ret = FALSE
  /\ HEAD # call.args[1]
  /\ DOMAIN refs # {}

\* C5: createBranch(name, h) sets refs[name] to h when h is given and to
\* refs[HEAD] when h is omitted and HEAD has an entry; with h omitted and no
\* entry for HEAD the ref table is unchanged; an existing entry is
\* overwritten; HEAD, the other entries and the store are unchanged
C5_CreateBranch ==
  [][CallStep("createBranch") =>
       LET name == call'.args[1]
           h == call'.args[2]
       IN
       /\ HEAD' = HEAD
       /\ objects' = objects
       /\ \A b \in BranchNames \ {name} : mapGet(refs', b) = mapGet(refs, b)
       /\ h # Null => mapGet(refs', name) = h
       /\ (h = Null /\ HEAD \in DOMAIN refs) => mapGet(refs', name) = refs[HEAD]
       /\ (h = Null /\ HEAD \notin DOMAIN refs) => refs' = refs]_vars

\* createBranch with an explicit fingerprint acted on the current branch,
\* which had an entry before, while the other branch points elsewhere
C5_Witness ==
  /\ call.op = "createBranch"
  /\ HEAD = "feature"
  /\ call.args = <<"feature", refs["feature"]>>
  /\ "main" \in DOMAIN refs
  /\ refs["main"] # refs["feature"]

\* C6: HEAD names a ref-table entry, or it is still the initial name main
\* and no commit has been made; so once a commit has been made HEAD names an
\* entry in every later state
C6_HeadNamesEntry ==
  \/ HEAD \in DOMAIN refs
  \/ HEAD = "main" /\ ~committed

\* the ref table has a branch while HEAD still names main, which has none
C6_Witness ==
  /\ HEAD \notin DOMAIN refs
  /\ DOMAIN refs # {}
  /\ call.op = "checkout"

(***************************************************************************)
(* Reference definitions of the properties: reachability and the           *)
(* depth-first order, stated without recursion over the graph              *)
(***************************************************************************)
Range(seq) == {seq[i] : i \in 1..Len(seq)}

Reverse(seq) == [i \in 1..Len(seq) |-> seq[Len(seq) + 1 - i]]

\* the parent fingerprints a fingerprint links to: none unless it is a commit
ParentsOf(h) == IF isCommit(h) THEN objects[h].parents ELSE <<>>

RECURSIVE Closure(_)
\* the least set holding S and the parents of its members
Closure(S) ==
  LET more == S \cup UNION {Range(ParentsOf(h)) : h \in S} IN
  IF more = S THEN S ELSE Closure(more)

\* a fingerprint with everything reachable from it through parent links
Ancestors(h) == Closure({h})

\* the commits reachable from h through parent links between commits
ReachableCommits(h) ==
  IF isCommit(h) THEN {c \in Ancestors(h) : isCommit(c)} ELSE {}

\* the first parent of h, in listed order, that is in todo
FirstIn(h, todo) ==
  LET ps == ParentsOf(h)
      i == CHOOSE i \in 1..Len(ps) : ps[i] \in todo /\ \A j \in 1..(i - 1) : ps[j] \notin todo
  IN  ps[i]

\* walk lists nodes in depth-first pre-order from its first element: each
\* later element is the first parent, not listed before and in nodes, of the
\* latest listed element that has one, and nothing of the kind is left over
IsPreorder(walk, start, nodes) ==
  /\ Len(walk) > 0 => walk[1] = start
  /\ \A i \in 2..Len(walk) :
       LET before == {walk[j] : j \in 1..(i - 1)}
           todo == nodes \ before
           open == {j \in 1..(i - 1) : Range(ParentsOf(walk[j])) \cap todo # {}}
       IN  /\ open # {}
           /\ walk[i] = FirstIn(walk[CHOOSE j \in open : \A k \in open : k <= j], todo)
  /\ Range(walk) = nodes
  /\ Len(walk) = Cardinality(nodes)

\* C7: after k >= 1 commit calls and nothing else on a new repository, the
\* first commit has no parent, the i-th commit's parent list is the (i-1)-th
\* commit's fingerprint, totalCommits is k and history() is the k commits
\* newest first
C7_Chain ==
  LET cs == trail.commits
      k == Len(cs)
  IN  (trail.pure /\ k >= 1) =>
        /\ cs[1].parents = <<>>
        /\ \A i \in 2..k : cs[i].parents = <<cs[i - 1].hash>>
        /\ totalCommits = k
        /\ getCommitHistory(Null) = Reverse(cs)

\* C7: every commit call prepends the returned commit to the history of the
\* current reference and leaves every stored object as it was
C7_Prepend ==
  CallStep("commit") =>
    /\ getCommitHistory(Null)' = <<ret'>> \o getCommitHistory(Null)
    /\ \A h \in DOMAIN objects : h \in DOMAIN objects' /\ objects'[h] = objects[h]

\* C7: the chain of k commits and the append-only history together
C7_AppendOnlyHistory == []C7_Chain /\ [][C7_Prepend]_vars

\* three commits were made on main and nothing else was called
C7_Witness == trail.pure /\ Len(trail.commits) = 3 /\ call.op = "commit"

\* C8: history(start) lists the commits reachable from start exactly once
\* each, as stored, in depth-first pre-order along the listed parents, start
\* first; without argument it starts at refs[HEAD] and is empty without entry
C8_HistoryOf(startHash) ==
  LET start == IF startHash # Null THEN startHash ELSE mapGet(refs, HEAD)
      history == getCommitHistory(startHash)
      ids == [i \in 1..Len(history) |-> history[i].hash]
  IN  /\ \A i \in 1..Len(history) : history[i] = objects[ids[i]]
      /\ IsPreorder(ids, start, ReachableCommits(start))
      /\ start = Null => history = <<>>

C8_HistoryIsPreorder ==
  /\ \A startHash \in Fingerprints \cup {Null} : C8_HistoryOf(startHash)
  /\ call.op = "getCommitHistory" => ret = getCommitHistory(call.args[1])

\* history was called on a merge commit of a diamond: two parents that
\* share their single parent
C8_Witness ==
  /\ call.op = "getCommitHistory"
  /\ Len(ret) = 4
  /\ ret[1].parents = <<ret[2].hash, ret[4].hash>>
  /\ ret[2].parents = <<ret[3].hash>>
  /\ ret[4].parents = <<ret[3].hash>>

\* the fingerprints in depth-first pre-order from h, those that name no
\* stored commit included, as a sequence
RECURSIVE WalkFrom(_, _)
WalkFrom(walk, nodes) ==
  LET todo == nodes \ Range(walk)
      open == {j \in 1..Len(walk) : Range(ParentsOf(walk[j])) \cap todo # {}}
  IN  IF open = {} THEN walk
      ELSE WalkFrom(Append(walk, FirstIn(walk[CHOOSE j \in open : \A k \in open : k <= j],
                                         todo)),
                    nodes)

\* the first element of walk that is in set, or null
FirstMember(walk, set) ==
  LET hits == {i \in 1..Len(walk) : walk[i] \in set} IN
  IF hits = {} THEN Null ELSE walk[CHOOSE i \in hits : \A j \in hits : i <= j]

\* C9: with entries for both names, mergeBase(A, B) is the first fingerprint
\* of the depth-first walk from B's tip that is an ancestor-or-self of A's
\* tip; it is an ancestor-or-self of both tips and absent exactly when the
\* two ancestor sets are disjoint; without an entry for either it is absent
C9_MergeBaseOf(A, B) ==
  LET base == findMergeBase(A, B) IN
  IF A \in DOMAIN refs /\ B \in DOMAIN refs
  THEN LET ancA == Ancestors(refs[A])
           ancB == Ancestors(refs[B])
       IN  /\ base = FirstMember(WalkFrom(<<refs[B]>>, ancB), ancA)
           /\ base # Null => base \in ancA \cap ancB
           /\ base = Null <=> ancA \cap ancB = {}
  ELSE base = Null

C9_FirstCommonAncestor ==
  /\ \A A \in BranchNames, B \in BranchNames : C9_MergeBaseOf(A, B)
  /\ call.op = "findMergeBase" => ret = findMergeBase(call.args[1], call.args[2])

C10_ForkPoint ==
  /\ \A c \in Commits : Len(objects[c].parents) <= 1
  /\ \A A \in DOMAIN refs : findMergeBase(A, A) = refs[A]
  /\ \A A \in DOMAIN refs, B \in DOMAIN refs :
       LET common == Ancestors(refs[A]) \cap Ancestors(refs[B])
           base == findMergeBase(A, B)
       IN  common # {} =>
             /\ base \in common
             /\ \A c \in common : c \in Ancestors(base)
             /\ base = findMergeBase(B, A)

\* root -> c2 -> c3 on feature and c2 -> c4 on main: the merge base is c2
C10_Witness ==
  /\ DOMAIN refs = {"main", "feature"}
  /\ refs["main"] # refs["feature"]
  /\ LET c2 == findMergeBase("feature", "main") IN
     /\ isCommit(c2)
     /\ ParentsOf(refs["feature"]) = <<c2>>
     /\ ParentsOf(refs["main"]) = <<c2>>
     /\ Len(ParentsOf(c2)) = 1
     /\ isCommit(ParentsOf(c2)[1])
     /\ ParentsOf(ParentsOf(c2)[1]) = <<>>

\* the number of places of a sequence that hold x
Count(seq, x) == Cardinality({i \in 1..Len(seq) : seq[i] = x})
\* the commits some ref-table entry reaches through parent links
RefReachable == UNION {ReachableCommits(refs[b]) : b \in DOMAIN refs}

\* C11: the snapshot has exactly one node for each commit reachable from the
\* target of some ref-table entry and none for any other stored commit, as
\* many edges (c -> p) as p is listed among the parents of such a commit c
\* and no other edge, the ref table as branches and HEAD as current reference
C11_GraphOf(graph, reachable) ==
  /\ {graph.nodes[i].id : i \in 1..Len(graph.nodes)} = reachable
  /\ Len(graph.nodes) = Cardinality(reachable)
  /\ \A i \in 1..Len(graph.nodes) :
       LET node == graph.nodes[i]
           commit == objects[node.id]
       IN  /\ commit.hash = node.id
           /\ node.hash = SubSeq(node.id, 1, 7)
           /\ <<node.message, node.author, node.timestamp, node.parents>>
                = <<commit.message, commit.author, commit.timestamp, commit.parents>>
  /\ \A i \in 1..Len(graph.edges) :
       LET edge == graph.edges[i] IN
       /\ edge.from \in reachable
       /\ Count(graph.edges, edge) = Count(objects[edge.from].parents, edge.to)
  /\ \A c \in reachable : \A j \in 1..Len(objects[c].parents) :
       Count(graph.edges, [from |-> c, to |-> objects[c].parents[j]])
         = Count(objects[c].parents, objects[c].parents[j])
  /\ graph.branches = refs
  /\ graph.HEAD = HEAD
C11_SnapshotOf(graph) == C11_GraphOf(graph, RefReachable)
C11_SnapshotIsReachableGraph ==
  /\ \A order \in RefOrders : C11_SnapshotOf(getCommitGraph(order))
  /\ call.op = "getCommitGraph" => \E order \in RefOrders : ret = getCommitGraph(order)
\* C11: a call of commitGraphSnapshot changes neither the store, the ref
\* table nor HEAD
C11_Snapshot ==
  /\ []C11_SnapshotIsReachableGraph
  /\ [][CallStep("getCommitGraph") => UNCHANGED <<objects, refs, HEAD>>]_vars
\* a snapshot was taken with two branches on different commits, a merge
\* commit among the nodes and a stored commit that no reference reaches
C11_Witness ==
  /\ call.op = "getCommitGraph"
  /\ DOMAIN refs = BranchNames
  /\ refs["main"] # refs["feature"]
  /\ \E i \in 1..Len(ret.nodes) : Len(ret.nodes[i].parents) = 2
  /\ Len(ret.nodes) >= 3
  /\ Len(ret.nodes) < Cardinality(Commits)

\* C12: the snapshot of a repository driven through commit, createBranch
\* and checkout has no cycle for detectCycle to find, in whichever order the
\* ref table is visited
C12_SnapshotAcyclic ==
  \A order \in RefOrders :
    LET graph == getCommitGraph(order) IN
    detectCycle(graph.nodes, graph.edges) = FALSE
\* two branches fork from a shared commit that has a parent of its own:
\* four nodes, the shared one met again from the second branch
C12_Witness ==
  /\ DOMAIN refs = BranchNames
  /\ \E order \in RefOrders :
       LET graph == getCommitGraph(order) IN
       /\ Len(graph.nodes) = 4
       /\ Len(graph.edges) = 3
       /\ graph.edges[3].to = graph.edges[1].to

\* the place of id in a list that holds it once
IndexOf(list, id) == CHOOSE k \in 1..Len(list) : list[k] = id

\* C13: for every edge (from, to) of a snapshot whose two ends
\* topologicalSort lists, the child from is at a lower or equal index than
\* the parent to in topologicalSort's output
C13_ChildBeforeParent ==
  \A order \in RefOrders :
    LET graph == getCommitGraph(order)
        sorted == topologicalSort(graph.nodes, graph.edges)
    IN  \A i \in 1..Len(graph.edges) :
          LET edge == graph.edges[i] IN
          (has(sorted, edge.from) /\ has(sorted, edge.to)) =>
            IndexOf(sorted, edge.from) <= IndexOf(sorted, edge.to)

\* the two ends of an edge, whichever way it points
Joined(edges, a, b) ==
  \E i \in 1..Len(edges) : {edges[i].from, edges[i].to} = {a, b}
RECURSIVE Within(_, _, _)
\* the ids at most n edges away from some id of S, edges taken both ways
Within(edges, S, n) ==
  IF n = 0 THEN S
  ELSE Within(edges, S \cup {b \in NodeIds : \E a \in S : Joined(edges, a, b)}, n - 1)
\* the least number of edges between s and t, or -1 when there is no path
Distance(edges, s, t) ==
  LET reach == {n \in 0..Cardinality(NodeIds) : t \in Within(edges, {s}, n)} IN
  IF reach = {} THEN 0 - 1 ELSE CHOOSE n \in reach : \A m \in reach : n <= m

\* C14: findShortestPath(s, t, edges) is [s] when s = t, is absent exactly
\* when no undirected path joins s and t, and is otherwise a sequence from
\* s to t whose consecutive nodes are joined by an edge and whose edge count
\* is the least possible
C14_PathOf(s, t, edges) ==
  LET path == findShortestPath(s, t, edges)
      distance == Distance(edges, s, t)
  IN  /\ s = t => path = <<s>>
      /\ path = Null <=> distance < 0
      /\ path # Null =>
           /\ path[1] = s
           /\ path[Len(path)] = t
           /\ \A k \in 1..(Len(path) - 1) : Joined(edges, path[k], path[k + 1])
           /\ Len(path) - 1 = distance
RECURSIVE After(_, _)
\* the least set holding S and every id an edge leads to from one of its members
After(edges, S) ==
  LET more == S \cup {edges[i].to : i \in {j \in 1..Len(edges) : edges[j].from \in S}} IN
  IF more = S THEN S ELSE After(edges, more)
\* some id is reached from itself along one or more edges in their direction
HasCycle(edges) ==
  \E i \in 1..Len(edges) : edges[i].from \in After(edges, {edges[i].to})
\* every end of every edge is the id of a listed node
EndsListed(nodes, edges) ==
  \A i \in 1..Len(edges) :
    {edges[i].from, edges[i].to} \subseteq {nodes[k].id : k \in 1..Len(nodes)}

\* C15: for a node list and an edge list whose ends are listed nodes,
\* detectCycle is true exactly when the directed graph has a directed cycle,
\* a loop on one node included, wherever in the node list the cycle lies
C15_DetectsEveryCycle ==
  /\ EndsListed(graphData.nodes, graphData.edges) =>
       (detectCycle(graphData.nodes, graphData.edges) <=> HasCycle(graphData.edges))
  /\ call.op = "detectCycle" => ret = detectCycle(graphData.nodes, graphData.edges)
\* detectCycle answered true for a cycle between the second and third node,
\* which no edge joins to the first
C15_Witness ==
  /\ call.op = "detectCycle"
  /\ ret = TRUE
  /\ Len(graphData.nodes) = 3
  /\ graphData.edges = <<[from |-> graphData.nodes[2].id, to |-> graphData.nodes[3].id],
                         [from |-> graphData.nodes[3].id, to |-> graphData.nodes[2].id]>>

\* the node with the given id in a list that holds it once
NodeOf(nodes, id) == nodes[CHOOSE k \in 1..Len(nodes) : nodes[k].id = id]

\* C16: for an acyclic graph calculateLayout puts each node on the layer
\* (number of nodes - 1 - its index in topologicalSort's output), counted
\* from index 0, so that y is layer * verticalGap + nodeHeight / 2, and for
\* every edge the parent to lies on a strictly greater layer, and at a
\* strictly greater y, than the child from (coordinates in halves)
C16_LayoutOf(nodes, edges, options) ==
  LET sorted == topologicalSort(nodes, edges)
      layout == calculateLayout(nodes, edges, options)
      Layer(id) == Len(nodes) - 1 - (IndexOf(sorted, id) - 1)
  IN  /\ Len(layout.nodes) = Len(nodes)
      /\ \A k \in 1..Len(nodes) :
           /\ has(sorted, nodes[k].id)
           /\ NodeOf(layout.nodes, nodes[k].id).y
                = 2 * Layer(nodes[k].id) * options.verticalGap + options.nodeHeight
      /\ \A i \in 1..Len(edges) :
           /\ Layer(edges[i].to) > Layer(edges[i].from)
           /\ NodeOf(layout.nodes, edges[i].to).y > NodeOf(layout.nodes, edges[i].from).y
C16_ParentsOnGreaterLayers ==
  /\ (EndsListed(graphData.nodes, graphData.edges) /\ ~HasCycle(graphData.edges)) =>
       \A options \in LayoutOptions :
         C16_LayoutOf(graphData.nodes, graphData.edges, options)
  /\ call.op = "calculateLayout" =>
       /\ ret = calculateLayout(graphData.nodes, graphData.edges, call.args[1])
       /\ \A k \in 1..Len(ret.nodes) : ret.nodes[k] \in Range(graphData.nodes)
\* a layout was made of three nodes listed parent first, the second the
\* child of the first and the third the child of the second
C16_Witness ==
  /\ call.op = "calculateLayout"
  /\ Len(graphData.nodes) = 3
  /\ graphData.edges = <<[from |-> graphData.nodes[2].id, to |-> graphData.nodes[1].id],
                         [from |-> graphData.nodes[3].id, to |-> graphData.nodes[2].id]>>
  /\ ret.nodes[1].y > ret.nodes[2].y
  /\ ret.nodes[2].y > ret.nodes[3].y

\* C17: an object that is in the store is never changed in place: whatever
\* the step, every entry of the store is still there afterwards, holds the
\* object it held, and that object's fingerprint is the key of the entry
C17_StoredObjectsKept ==
  [][\A key \in DOMAIN objects :
       /\ key \in DOMAIN objects'
       /\ objects'[key] = objects[key]
       /\ objects'[key].hash = key]_vars

\* the entries of the store that hold a blob of this content
BlobEntries(content) ==
  {key \in DOMAIN objects :
     objects[key].type = "blob" /\ objects[key].content = content}
C18_EqualBlobsOneEntry ==
  \A content \in Contents : Cardinality(BlobEntries(content)) <= 1
\* C18: storeObject returns the fingerprint of its object and has the object
\* under it; when that fingerprint is a key already, the store has the keys
\* it had, and so as many entries; blobs of equal content, however often
\* they are made and stored, are in one entry
C18_PutIdempotent ==
  /\ []C18_EqualBlobsOneEntry
  /\ [][CallStep("storeObject") =>
          LET object == call'.args[1]
          IN  /\ ret' = object.hash
              /\ object.hash \in DOMAIN objects'
              /\ objects'[object.hash] = object
              /\ object.hash \in DOMAIN objects =>
                   /\ DOMAIN objects' = DOMAIN objects
                   /\ Cardinality(DOMAIN objects') = Cardinality(DOMAIN objects)]_vars
\* a blob of a content that is in the store was stored again, next to a
\* blob of another content
C18_Witness ==
  /\ call.op = "storeObject"
  /\ call.had
  /\ call.args[1] = GitBlob(Content)
  /\ ret = GitBlob(Content).hash
  /\ BlobEntries(Content) = {ret}
  /\ BlobEntries(Content2) # {}

\* the entries of the store that hold an object of this kind
KindEntries(kind) == {key \in DOMAIN objects : objects[key].type = kind}
\* C19: in every state getStats() gives the number of entries of the store,
\* the number of entries holding a commit, a tree and a blob, the three
\* adding up to the number of entries, the number of entries of the ref
\* table and HEAD; what a call of getStats returned is this
C19_StatisticsCount ==
  /\ getStats.totalObjects = Cardinality(DOMAIN objects)
  /\ getStats.totalCommits = Cardinality(KindEntries("commit"))
  /\ getStats.totalTrees = Cardinality(KindEntries("tree"))
  /\ getStats.totalBlobs = Cardinality(KindEntries("blob"))
  /\ getStats.totalCommits + getStats.totalTrees + getStats.totalBlobs
       = getStats.totalObjects
  /\ getStats.branches = Cardinality(DOMAIN refs)
  /\ getStats.currentBranch = HEAD
  /\ call.op = "getStats" => ret = getStats
\* getStats was called with a blob, a tree and a commit in the store and
\* one branch in the ref table
C19_Witness ==
  /\ call.op = "getStats"
  /\ ret.totalObjects = 3
  /\ ret.totalCommits = 1
  /\ ret.totalTrees = 1
  /\ ret.totalBlobs = 1
  /\ ret.branches = 1
  /\ ret.currentBranch = "main"

\* the calls that only read
QueryOps == {"getObject", "getCommitHistory", "findMergeBase", "getCommitGraph", "getStats"}
\* fingerprints a caller may look up: of no object, and of objects that are
\* stored in some states only
Lookups ==
  {StrayHash, EmptyTreeHash, GitBlob(Content).hash, GitBlob(Content2).hash}
    \cup DOMAIN objects
C20_AbsentWhenUnknown ==
  /\ \A hash \in Lookups :
       /\ hash \notin DOMAIN objects => getObject(hash) = Null
       /\ ~isCommit(hash) => getCommitHistory(hash) = <<>>
  /\ \A branch1 \in BranchNames, branch2 \in BranchNames :
       (branch1 \notin DOMAIN refs \/ branch2 \notin DOMAIN refs) =>
         findMergeBase(branch1, branch2) = Null
  /\ (call.op = "getObject" /\ call.args[1] \notin DOMAIN objects) => ret = Null
  /\ (call.op = "getCommitHistory" /\ call.args[1] # Null /\ ~isCommit(call.args[1])) =>
       ret = <<>>
  /\ (call.op = "findMergeBase"
        /\ (call.args[1] \notin DOMAIN refs \/ call.args[2] \notin DOMAIN refs)) =>
       ret = Null
\* C20: a call of getObject, getCommitHistory, findMergeBase, getCommitGraph
\* or getStats leaves the store, the ref table and HEAD as they were;
\* getObject of a fingerprint that is no key gives nothing, getCommitHistory
\* of a fingerprint that is no key or the key of a blob or tree gives the
\* empty list, and findMergeBase of a branch name without an entry gives
\* nothing
C20_QueriesReadOnly ==
  /\ []C20_AbsentWhenUnknown
  /\ [][(call'.op \in QueryOps /\ now' = now) => UNCHANGED <<objects, refs, HEAD>>]_vars
\* with a commit on main in the store, the history of a stored blob's
\* fingerprint was asked for and came back empty
C20_Witness ==
  /\ call.op = "getCommitHistory"
  /\ call.args[1] \in DOMAIN objects
  /\ objects[call.args[1]].type = "blob"
  /\ ret = <<>>
  /\ "main" \in DOMAIN refs
  /\ isCommit(refs["main"])

\* the calls of the graph algorithms
AlgorithmOps ==
  {"topologicalSort", "calculateLayout", "findShortestPath", "detectCycle",
   "calculateGraphMetrics"}
\* C21: a call of topologicalSort, calculateLayout, findShortestPath,
\* detectCycle or calculateGraphMetrics leaves the node records and the edge
\* records of the snapshot handed to it as they were
C21_AlgorithmsPure ==
  [][call'.op \in AlgorithmOps => graphData' = graphData]_vars

\* C22: in the snapshot of every state reached through commit, createBranch
\* and checkout, the commit an edge comes from and the commit it goes to
\* both have a node in that snapshot
C22_EdgeEndsAreNodes ==
  \A order \in RefOrders :
    LET graph == getCommitGraph(order)
        ids == {graph.nodes[i].id : i \in 1..Len(graph.nodes)}
    IN  \A i \in 1..Len(graph.edges) :
          graph.edges[i].from \in ids /\ graph.edges[i].to \in ids

\* the node of this id has coordinates in the layout
Placed(layout, id) ==
  \E k \in 1..Len(layout.nodes) :
    layout.nodes[k].id = id /\ {"x", "y"} \subseteq DOMAIN layout.nodes[k]
\* C23: in the layout of the snapshot, renderEdge gives a path for every
\* edge whose two end nodes were given coordinates by calculateLayout
C23_EdgesDrawn ==
  \A order \in RefOrders :
    LET layout == layoutData(getCommitGraph(order)) IN
    \A i \in 1..Len(layout.edges) :
      (Placed(layout, layout.edges[i].from) /\ Placed(layout, layout.edges[i].to))
        => renderEdge(layout.edges[i]) # Null

\* C24: for an input without a directed cycle calculateLayout gives the
\* nodes pairwise different layers, so that each layer holds one node, at
\* position 0, and every node has x = 0 whatever nodeWidth and horizontalGap
\* are, while no two nodes have the same y
C24_LayoutOf(nodes, edges, sorted, layout) ==
  /\ Len(sorted) = Len(nodes)
  /\ Len(layout.nodes) = Len(nodes)
  /\ \A j, k \in 1..Len(sorted) :
       /\ j # k => layerOf(sorted, j) # layerOf(sorted, k)
       /\ layerSize(sorted, k) = 1
       /\ positionOf(sorted, k) = 0
  /\ \A k \in 1..Len(layout.nodes) : layout.nodes[k].x = 0
  /\ \A j, k \in 1..Len(layout.nodes) : j # k => layout.nodes[j].y # layout.nodes[k].y
C24_OneNodePerLayer ==
  /\ ~HasCycle(graphData.edges) =>
       \A options \in LayoutOptions :
         C24_LayoutOf(graphData.nodes, graphData.edges,
                      topologicalSort(graphData.nodes, graphData.edges),
                      calculateLayout(graphData.nodes, graphData.edges, options))
  /\ (call.op = "calculateLayout" /\ ~HasCycle(graphData.edges)) =>
       \A k \in 1..Len(graphData.nodes) : graphData.nodes[k].x = 0
\* a layout was made, with a node width that is not the default, of three
\* nodes of which two are children of the third, and all are at x = 0
C24_Witness ==
  /\ call.op = "calculateLayout"
  /\ call.args[1].nodeWidth # DefaultOptions.nodeWidth
  /\ Len(graphData.nodes) = 3
  /\ graphData.edges = <<[from |-> graphData.nodes[1].id, to |-> graphData.nodes[3].id],
                         [from |-> graphData.nodes[2].id, to |-> graphData.nodes[3].id]>>
  /\ \A k \in 1..3 : ret.nodes[k].x = 0
  /\ Cardinality({ret.nodes[k].y : k \in 1..3}) = 3

\* the characters 0-9 and a-f
HexDigits == (48..57) \cup (97..102)
RECURSIVE HexValue(_)
\* the number a string of hexadecimal digits stands for
HexValue(str) ==
  IF str = <<>> THEN 0
  ELSE 16 * HexValue(SubSeq(str, 1, Len(str) - 1))
         + (LET d == str[Len(str)] IN IF d < 58 THEN d - 48 ELSE d - 87)
\* 40 characters, the first 32 of them 0, the last 8 the hexadecimal digits
\* of a number that is at most 2^31 = 32768 * 65536
ShapedFingerprint(hash) ==
  /\ Len(hash) = 40
  /\ \A i \in 1..32 : hash[i] = 48
  /\ \A i \in 33..40 : hash[i] \in HexDigits
  /\ \/ HexValue(SubSeq(hash, 33, 36)) < 32768
     \/ HexValue(SubSeq(hash, 33, 36)) = 32768 /\ HexValue(SubSeq(hash, 37, 40)) = 0
\* fingerprints of values of every kind that are made, stored or not
MadeFingerprints ==
  {StrayHash, EmptyTreeHash, GitBlob(Content).hash, GitBlob(Content2).hash,
   addEntry(GitTree(<<>>), Mode644, FileName, GitBlob(Content).hash, StrBlob).hash,
   generate(<<>>), generate(Time0), generate(Time0 \o Time1 \o Time0)}
\* the last step of generate for the least, the greatest and the middle
\* 32-bit values
FormedExtremes ==
  {slice(padStart(toString16(abs32(v)), 40, 48), 0, 40) :
     v \in {<<0, 0>>, <<0, 1>>, <<32767, 65535>>, <<32768, 0>>, <<32768, 1>>,
            <<65535, 65535>>}}
\* C25: every fingerprint is 40 characters long, the hexadecimal digits of
\* the absolute value of a 32-bit signed integer after 0s, so that its first
\* 32 characters are 0; the short form of every node of the snapshot is
\* 0000000
C25_FingerprintShape ==
  /\ \A hash \in DOMAIN objects \cup MadeFingerprints \cup FormedExtremes :
       ShapedFingerprint(hash)
  /\ \A hash \in DOMAIN objects : ShapedFingerprint(objects[hash].hash)
  /\ \A order \in RefOrders :
       LET graph == getCommitGraph(order) IN
       \A i \in 1..Len(graph.nodes) :
         /\ graph.nodes[i].hash = <<48, 48, 48, 48, 48, 48, 48>>
         /\ ShapedFingerprint(graph.nodes[i].id)
  /\ call.op = "getCommitGraph" =>
       \A i \in 1..Len(ret.nodes) : ret.nodes[i].hash = <<48, 48, 48, 48, 48, 48, 48>>
\* a snapshot was taken with two nodes of different fingerprints, whose
\* short forms are both 0000000
C25_Witness ==
  /\ call.op = "getCommitGraph"
  /\ Len(ret.nodes) >= 2
  /\ ret.nodes[1].id # ret.nodes[2].id
  /\ ret.nodes[1].hash = <<48, 48, 48, 48, 48, 48, 48>>
  /\ ret.nodes[2].hash = ret.nodes[1].hash

\* the edges both ends of which are ids of listed nodes
ListedEdges(nodes, edges) ==
  SelectSeq(edges, LAMBDA edge :
    {edge.from, edge.to} \subseteq {nodes[k].id : k \in 1..Len(nodes)})
\* the ids on a directed cycle, and those reached from one
CycleBound(edges) ==
  After(edges, {edges[i].from : i \in {j \in 1..Len(edges) :
                                         edges[j].from \in After(edges, {edges[j].to})}})
\* C26: topologicalSort lists no id twice and only ids of nodes; it takes no
\* notice of an edge one end of which is no listed node; the ids it leaves
\* out are those on a directed cycle and those reached from one, so that
\* without a cycle every id is listed once, nodes without any edge included;
\* and it lists every node exactly when detectCycle is false
C26_SortOf(nodes, edges, listed, sorted) ==
  /\ \A j, k \in 1..Len(sorted) : sorted[j] = sorted[k] => j = k
  /\ sorted = topologicalSort(nodes, listed)
  /\ {sorted[k] : k \in 1..Len(sorted)}
       = {nodes[k].id : k \in 1..Len(nodes)} \ CycleBound(listed)
  /\ ~HasCycle(listed) => Len(sorted) = Len(nodes)
  /\ (Len(sorted) = Len(nodes)) <=> (detectCycle(nodes, edges) = FALSE)
C26_SortComplete ==
  /\ C26_SortOf(graphData.nodes, graphData.edges,
                ListedEdges(graphData.nodes, graphData.edges),
                topologicalSort(graphData.nodes, graphData.edges))
  /\ call.op = "topologicalSort" =>
       ret = topologicalSort(graphData.nodes, graphData.edges)
\* topologicalSort listed both of two nodes, given one edge, which comes
\* from the id of no listed node: the first node has no edge at all
C26_Witness ==
  /\ call.op = "topologicalSort"
  /\ Len(graphData.nodes) = 2
  /\ Len(graphData.edges) = 1
  /\ graphData.edges[1].from \notin {graphData.nodes[1].id, graphData.nodes[2].id}
  /\ graphData.edges[1].to = graphData.nodes[2].id
  /\ Len(ret) = 2

\* the number of edges that go to, and that come from, an id
InDegree(edges, id) == Cardinality({i \in 1..Len(edges) : edges[i].to = id})
OutDegree(edges, id) == Cardinality({i \in 1..Len(edges) : edges[i].from = id})
RECURSIVE Steps(_, _, _)
\* the ids at which a walk of exactly n edges from an id of S ends
Steps(edges, S, n) ==
  IF n = 0 THEN S
  ELSE Steps(edges, {edges[i].to : i \in {j \in 1..Len(edges) : edges[j].from \in S}}, n - 1)
\* the number of edges of the longest directed path that starts in S, the
\* edges having no cycle; 0 when there is nowhere to start
Longest(edges, S) ==
  IF S = {} THEN 0
  ELSE CHOOSE n \in 0..Len(edges) :
    /\ Steps(edges, S, n) # {}
    /\ \A m \in (n + 1)..Len(edges) : Steps(edges, S, m) = {}
\* C27: for a graph without a directed cycle calculateGraphMetrics returns
\* (it does not recurse without end) the number of nodes no edge goes to as
\* rootCount, the number of nodes no edge comes from as leafCount, and as
\* maxDepth the number of edges of the longest directed path, which is 0
\* without edges; with edges that have an end at no listed node, the paths
\* counted are those from a root along edges that come from listed nodes
C27_MetricsOf(nodes, edges, ids, metrics) ==
  /\ DOMAIN metrics # {"error"}
  /\ metrics.nodeCount = Len(nodes)
  /\ metrics.edgeCount = Len(edges)
  /\ metrics.rootCount = Cardinality({id \in ids : InDegree(edges, id) = 0})
  /\ metrics.leafCount = Cardinality({id \in ids : OutDegree(edges, id) = 0})
  /\ ids # {} =>
       metrics.maxDepth
         = Longest(SelectSeq(edges, LAMBDA edge : edge.from \in ids),
                   {id \in ids : InDegree(edges, id) = 0})
  /\ (ids # {} /\ EndsListed(nodes, edges)) =>
       metrics.maxDepth = Longest(edges, ids)
  /\ Len(edges) = 0 => metrics.maxDepth = 0
C27_Metrics ==
  /\ ~HasCycle(graphData.edges) =>
       C27_MetricsOf(graphData.nodes, graphData.edges,
                     {graphData.nodes[k].id : k \in 1..Len(graphData.nodes)},
                     calculateGraphMetrics(graphData.nodes, graphData.edges))
  /\ call.op = "calculateGraphMetrics" =>
       ret = calculateGraphMetrics(graphData.nodes, graphData.edges)
\* the metrics were taken of three nodes in a chain of two edges: one root,
\* one leaf and a depth of 2
C27_Witness ==
  /\ call.op = "calculateGraphMetrics"
  /\ Len(graphData.nodes) = 3
  /\ graphData.edges = <<[from |-> graphData.nodes[2].id, to |-> graphData.nodes[3].id],
                         [from |-> graphData.nodes[1].id, to |-> graphData.nodes[2].id]>>
  /\ ret.rootCount = 1
  /\ ret.leafCount = 1
  /\ ret.maxDepth = 2

============================================================================
